---- MODULE Spec2Model ----
(***************************************************************************)
(* Model of src/src/App.tsx: the GestureController effect (setup,          *)
(* predictWebcam, cleanup), the GrandTreeApp scene state it drives, and    *)
(* the per-frame morph steps of the entity groups.                         *)
(*                                                                         *)
(* Fixed point: landmark x in 1/1000, scores in 1/100, rotation speed in   *)
(* 1/100000, positions in 1/1000, lerp factors and progress in 1/1000000,  *)
(* frame time in ticks of 1/1200 s.                                        *)
(***************************************************************************)
EXTENDS Integers, Sequences, FiniteSets, TLC

\* ------------------------------------------------------------------------
\* Bounds of the model
\* ------------------------------------------------------------------------
\* number of runs of the GestureController effect (mount + re-runs)
MaxInst == 2
\* entities per group (cfg.counts.ornaments / elements / lights, scaled down)
EntityCount == 1
\* largest coordinate a frame may produce, in 1/100 (frames that would leave
\* the range are not taken)
MaxCoord == 10000
\* frames rendered in a bounded run
MaxFrames == 5
\* frames rendered in a run of the two scenes side by side
MaxTwinFrames == 3
\* tolerance of "converged", in 1/100 for positions and 1/1000 for progress
Epsilon == 10
\* frames rendered in a run that mixes mode gestures, the mode button and frames
MaxLayoutFrames == 3

Insts == 1..MaxInst

\* ------------------------------------------------------------------------
\* Program constants
\* ------------------------------------------------------------------------
\* score > 0.4, in 1/100
ScoreThreshold == 40
\* (0.5 - x), in 1/1000
FrameCenter == 500
\* * 0.15 : 1/1000 * 15 gives 1/100000
MoveGain == 15
\* Math.abs(speed) > 0.01, in 1/100000
DeadZone == 1000
\* const h = 22; const rBase = 9 (tree: { height: 22, radius: 9 })
TreeHeight == 22
TreeRadius == 9
\* chaosPos = (Math.random()-0.5)*50 for ornaments, *40 for elements and lights
OrnamentSpread == 50
ElementSpread == 40
LightSpread == 40
\* lerp rates, times 10: delta * (isFormed ? 0.8 : 0.5), delta * 1.2, delta * 1.8,
\* delta * 3; damp lambda 1.5
OrnamentRateFormed == 8
OrnamentRateChaos == 5
ElementRate == 12
LightRate == 18
StarRate == 30
FoliageLambda == 15

\* ------------------------------------------------------------------------
\* Runtime configuration
\* ------------------------------------------------------------------------
\* lines 38-44: counts and tree of BASE_CONFIG
BASE_CONFIG ==
    [counts |-> [foliage |-> 15000, ornaments |-> 300, elements |-> 200, lights |-> 400],
     tree   |-> [height |-> TreeHeight, radius |-> TreeRadius]]

\* a resolver that returns the desktop configuration on every device
useRuntimeConfigNoDownscale(mobile) == [cfg |-> BASE_CONFIG, isMobile |-> mobile]

\* lines 51-64: a copy of BASE_CONFIG, with the counts replaced on mobile
useRuntimeConfig(mobile) ==
    [cfg |-> IF mobile
             THEN [BASE_CONFIG EXCEPT !.counts.foliage = 4000, !.counts.ornaments = 100,
                                      !.counts.elements = 60, !.counts.lights = 120]
             ELSE BASE_CONFIG,
     isMobile |-> mobile]

\* the entity groups that have a count
Groups == {"foliage", "ornaments", "elements", "lights"}

\* ------------------------------------------------------------------------
\* Inputs of the recognizer (results of recognizeForVideo)
\* ------------------------------------------------------------------------
CategoryNames == {"Open_Palm", "Closed_Fist", "Thumb_Up"}
Scores == {39, 40, 41}
\* x of landmarks[0][0]; MediaPipe reports values outside [0,1] for a hand
\* that is partly out of the frame
LandmarkXs == {-1000, 450, 1000}

GestureLists ==
    {<< >>} \cup {<<[categoryName |-> n, score |-> s]>> : n \in CategoryNames, s \in Scores}

LandmarkLists == {<< >>} \cup {<<[x |-> x]>> : x \in LandmarkXs}

Results == [gestures : GestureLists, landmarks : LandmarkLists]

\* lastFrame when the last step recognised no frame
NoFrame == << >>

VARIABLES
    \* environment
    isMobile,          \* isMobileUA()
    mediaDevices,      \* navigator.mediaDevices && navigator.mediaDevices.getUserMedia
    \* GrandTreeApp state
    mounted,           \* the component tree is mounted (videoRef.current, canvasRef.current set)
    sceneState,        \* useState 'CHAOS' | 'FORMED'
    rotationSpeed,     \* useState number, in 1/100000
    aiStatus,          \* useState string
    debugMode,         \* useState boolean
    \* GestureController effect instances (one closure per run of the effect)
    nInst,             \* number of effect runs so far; the current instance is nInst
    pc,                \* position of setup() of each instance
    cancelled,         \* let cancelled
    gestureRecognizer, \* let gestureRecognizer (FALSE = null)
    requestRef,        \* an animation-frame callback of the instance is pending
    stream,            \* the MediaStream the instance obtained from getUserMedia
    dbg,               \* debugMode captured by the closure
    srcObject,         \* videoRef.current.srcObject: instance whose stream it is
    failure,           \* what became of an exception recognizeForVideo threw in the instance
    \* observation of the calls of the last step
    emitted,           \* calls of onGesture / onMove / onStatus made by the last step
    lastFrame,         \* the results the last step passed through predictWebcam
    \* the scene (Foliage, PhotoOrnaments, ChristmasElements, FairyLights, TopStar)
    uProgress,         \* materialRef.current.uProgress, in 1/10000
    ornaments,         \* PhotoOrnaments data[i]: chaosPos, targetPos, currentPos (1/100)
    elements,          \* ChristmasElements data[i]
    lights,            \* FairyLights data[i]
    starScale,         \* TopStar groupRef.current.scale, in 1/1000
    runtime,           \* useRuntimeConfig(): { cfg, isMobile }, memoised for the session
    frameCount,        \* frames rendered so far (counted in the bounded runs)
    twin               \* a second scene, spared repeated mode switches (see TwinNext)

pipeVars == <<isMobile, mediaDevices, mounted, sceneState, rotationSpeed, aiStatus,
              debugMode, nInst, pc, cancelled, gestureRecognizer, requestRef, stream,
              dbg, srcObject, failure, emitted, lastFrame>>

sceneVars == <<uProgress, ornaments, elements, lights, starScale, runtime>>

vars == <<pipeVars, sceneVars, frameCount, twin>>

\* ------------------------------------------------------------------------
\* GrandTreeApp: the state setters handed to GestureController
\* ------------------------------------------------------------------------
Call(fn, arg) == [fn |-> fn, arg |-> arg]

\* a mode setter that flips the mode on every call, as the mode button does
setSceneStateFlip(prev, value) == IF prev = "CHAOS" THEN "FORMED" ELSE "CHAOS"

\* onGesture = setSceneState : replaces the mode by the value given
setSceneState(prev, value) == value

\* onMove = setRotationSpeed : stores the value given, unclamped
setRotationSpeed(prev, value) == value

\* onStatus = setAiStatus
setAiStatus(prev, value) == value

\* the UI button: setSceneState(s => s === 'CHAOS' ? 'FORMED' : 'CHAOS')
toggleSceneState(prev) == IF prev = "CHAOS" THEN "FORMED" ELSE "CHAOS"

AppState == [sceneState |-> sceneState, rotationSpeed |-> rotationSpeed, aiStatus |-> aiStatus]

ApplyCall(s, c) ==
    CASE c.fn = "onGesture" -> [s EXCEPT !.sceneState = setSceneState(s.sceneState, c.arg)]
      [] c.fn = "onMove"    -> [s EXCEPT !.rotationSpeed = setRotationSpeed(s.rotationSpeed, c.arg)]
      [] c.fn = "onStatus"  -> [s EXCEPT !.aiStatus = setAiStatus(s.aiStatus, c.arg)]

RECURSIVE ApplyCalls(_, _)
ApplyCalls(s, calls) ==
    IF Len(calls) = 0 THEN s ELSE ApplyCalls(ApplyCall(s, Head(calls)), Tail(calls))

\* The calls instance i makes in a step: React applies the setters while the
\* component is mounted and ignores them afterwards; `late` records whether
\* the instance's cleanup had already run when it made the call.
Emit(i, calls, live) ==
    LET s == IF live THEN ApplyCalls(AppState, calls) ELSE AppState
    IN  /\ sceneState' = s.sceneState
        /\ rotationSpeed' = s.rotationSpeed
        /\ aiStatus' = s.aiStatus
        /\ emitted' = [k \in 1..Len(calls) |->
                          [inst |-> i, fn |-> calls[k].fn, arg |-> calls[k].arg,
                           late |-> cancelled[i]]]

\* ------------------------------------------------------------------------
\* GestureController.predictWebcam
\* ------------------------------------------------------------------------
Abs(n) == IF n < 0 THEN -n ELSE n

\* const speed = (0.5 - x) * 0.15; onMove(Math.abs(speed) > 0.01 ? speed : 0)
MoveArg(x) ==
    LET speed == (FrameCenter - x) * MoveGain
    IN  IF Abs(speed) > DeadZone THEN speed ELSE 0

DetectedStatus(name) ==
    CASE name = "Open_Palm"   -> "DETECTED: Open_Palm"
      [] name = "Closed_Fist" -> "DETECTED: Closed_Fist"
      [] OTHER                -> "DETECTED: Thumb_Up"

\* score > 0.4
ScorePasses(score) == score > ScoreThreshold

\* lines 343-352: the calls made for one recognised frame
FrameCalls(results, debug) ==
    IF Len(results.gestures) > 0
    THEN LET name  == results.gestures[1].categoryName
             score == results.gestures[1].score
         IN  (IF ScorePasses(score)
              THEN (IF name = "Open_Palm" THEN <<Call("onGesture", "CHAOS")>> ELSE << >>)
                   \o (IF name = "Closed_Fist" THEN <<Call("onGesture", "FORMED")>> ELSE << >>)
                   \o (IF debug THEN <<Call("onStatus", DetectedStatus(name))>> ELSE << >>)
              ELSE << >>)
             \o (IF Len(results.landmarks) > 0
                 THEN <<Call("onMove", MoveArg(results.landmarks[1].x))>>
                 ELSE << >>)
    ELSE <<Call("onMove", 0)>>
         \o (IF debug THEN <<Call("onStatus", "AI READY: NO HAND")>> ELSE << >>)

\* the guard of predictWebcam without its !cancelled conjunct
PredictGuardIgnoringCancel(i) == gestureRecognizer[i] /\ mounted

\* if (gestureRecognizer && videoRef.current && canvasRef.current && !cancelled)
PredictGuard(i) == gestureRecognizer[i] /\ mounted /\ ~cancelled[i]

\* one run of predictWebcam of instance i: the calls it makes, the results
\* it recognised (NoFrame if none), and whether it requested the next frame
predictWebcam(i, videoWidth, results) ==
    IF PredictGuard(i)
    THEN [calls     |-> IF videoWidth > 0 THEN FrameCalls(results, dbg[i]) ELSE << >>,
          frame     |-> IF videoWidth > 0 THEN <<results>> ELSE NoFrame,
          scheduled |-> TRUE]
    ELSE [calls |-> << >>, frame |-> NoFrame, scheduled |-> FALSE]

VideoWidths == {0, 640}

\* ------------------------------------------------------------------------
\* GestureController: the effect, its cleanup, setup()
\* ------------------------------------------------------------------------
\* return () => { cancelled = true; if (requestRef) cancelAnimationFrame(requestRef); }
\* (on mobile the effect returns () => {})
\* a cleanup that leaves the cancelled flag alone
CleanupCancelledSkipped(i) == cancelled

CleanupCancelled(i) ==
    IF pc[i] = "disabled" THEN cancelled ELSE [cancelled EXCEPT ![i] = TRUE]

CleanupRequestRef(i) ==
    IF pc[i] = "disabled" THEN requestRef ELSE [requestRef EXCEPT ![i] = FALSE]

\* an effect that attempts the pipeline on every device
PipelineAttemptedAnyway == FALSE

\* const isMobile = isMobileUA(); if (isMobile) { ...; return () => {}; }
PipelineDisabled == isMobile

\* the body of the effect for a new instance i, up to the first await of setup()
RunEffect(i) ==
    /\ nInst' = i
    /\ dbg' = [dbg EXCEPT ![i] = debugMode']
    /\ IF PipelineDisabled
       THEN /\ pc' = [pc EXCEPT ![i] = "disabled"]
            /\ Emit(i, <<Call("onStatus", "AI DISABLED ON MOBILE")>>, TRUE)
       ELSE /\ pc' = [pc EXCEPT ![i] = "awaitVision"]
            /\ Emit(i, <<Call("onStatus", "DOWNLOADING AI...")>>, TRUE)

MountCore ==
    /\ ~mounted /\ nInst = 0
    /\ mounted' = TRUE
    /\ debugMode' = debugMode
    /\ RunEffect(1)
    /\ lastFrame' = NoFrame
    /\ UNCHANGED <<sceneVars, frameCount, failure>>
    /\ UNCHANGED <<isMobile, mediaDevices, cancelled, gestureRecognizer, requestRef,
                   stream, srcObject>>

Mount == MountCore /\ UNCHANGED twin

\* the debug button: setDebugMode(!debugMode); the dependency change re-runs
\* the effect: cleanup of the current instance, then a new instance
ToggleDebug ==
    /\ mounted /\ nInst < MaxInst
    /\ debugMode' = ~debugMode
    /\ cancelled' = CleanupCancelled(nInst)
    /\ requestRef' = CleanupRequestRef(nInst)
    /\ RunEffect(nInst + 1)
    /\ lastFrame' = NoFrame
    /\ UNCHANGED <<sceneVars, frameCount, twin, failure>>
    /\ UNCHANGED <<isMobile, mediaDevices, mounted, gestureRecognizer, stream, srcObject>>

\* the mode button
ToggleSceneCore ==
    /\ mounted
    /\ sceneState' = toggleSceneState(sceneState)
    /\ emitted' = << >>
    /\ lastFrame' = NoFrame
    /\ UNCHANGED <<sceneVars, frameCount, failure>>
    /\ UNCHANGED <<isMobile, mediaDevices, mounted, rotationSpeed, aiStatus, debugMode,
                   nInst, pc, cancelled, gestureRecognizer, requestRef, stream, dbg,
                   srcObject>>

ToggleScene == ToggleSceneCore /\ UNCHANGED twin

\* teardown of the component: the effect cleanup runs, the refs become null
Unmount ==
    /\ mounted
    /\ mounted' = FALSE
    /\ cancelled' = CleanupCancelled(nInst)
    /\ requestRef' = CleanupRequestRef(nInst)
    /\ emitted' = << >>
    /\ lastFrame' = NoFrame
    /\ UNCHANGED <<sceneVars, frameCount, twin, failure>>
    /\ UNCHANGED <<isMobile, mediaDevices, sceneState, rotationSpeed, aiStatus, debugMode,
                   nInst, pc, gestureRecognizer, stream, dbg, srcObject>>

\* await FilesetResolver.forVisionTasks(...) resolves
VisionResolveCore(i) ==
    /\ pc[i] = "awaitVision"
    /\ pc' = [pc EXCEPT ![i] = "awaitModel"]
    /\ emitted' = << >>
    /\ lastFrame' = NoFrame
    /\ UNCHANGED <<sceneVars, frameCount, failure>>
    /\ UNCHANGED <<isMobile, mediaDevices, mounted, sceneState, rotationSpeed, aiStatus,
                   debugMode, nInst, cancelled, gestureRecognizer, requestRef, stream,
                   dbg, srcObject>>

VisionResolve(i) == VisionResolveCore(i) /\ UNCHANGED twin

\* err.message of what a promise rejects with or the recognizer throws; ""
\* stands for an error without message (undefined or empty)
ErrorMessages == {"", "Failed to fetch", "404", "Permission denied", "wasm abort"}

\* line 324: `ERROR: ${err?.message || 'MODEL FAILED'}`
ErrorStatus(message) ==
    IF message = "" THEN "ERROR: MODEL FAILED" ELSE "ERROR: " \o message

\* an await of setup() rejects: catch (err) { onStatus(`ERROR: ...`) }
SetupReject(i, at, message) ==
    /\ pc[i] = at
    /\ pc' = [pc EXCEPT ![i] = "done"]
    /\ Emit(i, <<Call("onStatus", ErrorStatus(message))>>, mounted)
    /\ lastFrame' = NoFrame
    /\ UNCHANGED <<sceneVars, frameCount, twin, failure>>
    /\ UNCHANGED <<isMobile, mediaDevices, mounted, debugMode, nInst, cancelled,
                   gestureRecognizer, requestRef, stream, dbg, srcObject>>

VisionReject(i, message) == SetupReject(i, "awaitVision", message)

ModelReject(i, message) == SetupReject(i, "awaitModel", message)

CameraReject(i, message) == SetupReject(i, "awaitCamera", message)

\* gestureRecognizer = await GestureRecognizer.createFromOptions(...) resolves
ModelResolveCore(i) ==
    /\ pc[i] = "awaitModel"
    /\ gestureRecognizer' = [gestureRecognizer EXCEPT ![i] = TRUE]
    /\ pc' = [pc EXCEPT ![i] = IF mediaDevices THEN "awaitCamera" ELSE "done"]
    /\ Emit(i, <<Call("onStatus", "REQUESTING CAMERA...")>>
               \o (IF mediaDevices THEN << >>
                   ELSE <<Call("onStatus", "ERROR: CAMERA PERMISSION DENIED")>>),
            mounted)
    /\ lastFrame' = NoFrame
    /\ UNCHANGED <<sceneVars, frameCount, failure>>
    /\ UNCHANGED <<isMobile, mediaDevices, mounted, debugMode, nInst, cancelled,
                   requestRef, stream, dbg, srcObject>>

ModelResolve(i) == ModelResolveCore(i) /\ UNCHANGED twin

\* const stream = await getUserMedia(...) resolves; lines 317-319
CameraResolveCore(i, videoWidth, results) ==
    /\ pc[i] = "awaitCamera"
    /\ pc' = [pc EXCEPT ![i] = "done"]
    /\ stream' = [stream EXCEPT ![i] = "live"]
    /\ IF mounted
       THEN LET p == predictWebcam(i, videoWidth, results)
            IN  /\ srcObject' = i
                /\ Emit(i, <<Call("onStatus", "AI READY: SHOW HAND")>> \o p.calls, TRUE)
                /\ requestRef' = [requestRef EXCEPT ![i] = p.scheduled]
                /\ lastFrame' = p.frame
       ELSE /\ Emit(i, << >>, FALSE)
            /\ UNCHANGED <<srcObject, requestRef>>
            /\ lastFrame' = NoFrame
    /\ UNCHANGED <<sceneVars, frameCount, failure>>
    /\ UNCHANGED <<isMobile, mediaDevices, mounted, debugMode, nInst, cancelled,
                   gestureRecognizer, dbg>>

CameraResolve(i, videoWidth, results) == CameraResolveCore(i, videoWidth, results) /\ UNCHANGED twin

\* the animation-frame callback of instance i runs predictWebcam
PredictFrameCore(i, videoWidth, results) ==
    /\ requestRef[i]
    /\ LET p == predictWebcam(i, videoWidth, results)
       IN  /\ Emit(i, p.calls, mounted)
           /\ requestRef' = [requestRef EXCEPT ![i] = p.scheduled]
           /\ lastFrame' = p.frame
    /\ UNCHANGED <<sceneVars, frameCount, failure>>
    /\ UNCHANGED <<isMobile, mediaDevices, mounted, debugMode, nInst, pc, cancelled,
                   gestureRecognizer, stream, dbg, srcObject>>

PredictFrame(i, videoWidth, results) == PredictFrameCore(i, videoWidth, results) /\ UNCHANGED twin

\* recognizeForVideo is reached: the guard of predictWebcam holds and the
\* video has a frame (lines 329-331)
RecognizerCalled(i, videoWidth) == PredictGuard(i) /\ videoWidth > 0

\* getUserMedia resolves and recognizeForVideo throws in the predictWebcam()
\* call of line 318: the exception leaves predictWebcam before line 354 and is
\* caught by the catch of setup() (lines 323-325)
CameraResolveThrow(i, videoWidth, message) ==
    /\ pc[i] = "awaitCamera"
    /\ mounted
    /\ RecognizerCalled(i, videoWidth)
    /\ pc' = [pc EXCEPT ![i] = "done"]
    /\ stream' = [stream EXCEPT ![i] = "live"]
    /\ srcObject' = i
    /\ Emit(i, <<Call("onStatus", "AI READY: SHOW HAND"),
                 Call("onStatus", ErrorStatus(message))>>, TRUE)
    /\ failure' = [failure EXCEPT ![i] = "caught"]
    /\ lastFrame' = NoFrame
    /\ UNCHANGED <<sceneVars, frameCount, twin>>
    /\ UNCHANGED <<isMobile, mediaDevices, mounted, debugMode, nInst, cancelled,
                   gestureRecognizer, requestRef, dbg>>

\* recognizeForVideo throws in an animation-frame callback: predictWebcam has
\* no try/catch, the exception leaves the callback before
\* requestAnimationFrame (line 354) and nothing catches it
PredictFrameThrow(i, videoWidth) ==
    /\ requestRef[i]
    /\ RecognizerCalled(i, videoWidth)
    /\ Emit(i, << >>, mounted)
    /\ requestRef' = [requestRef EXCEPT ![i] = FALSE]
    /\ failure' = [failure EXCEPT ![i] = "uncaught"]
    /\ lastFrame' = NoFrame
    /\ UNCHANGED <<sceneVars, frameCount, twin>>
    /\ UNCHANGED <<isMobile, mediaDevices, mounted, debugMode, nInst, pc, cancelled,
                   gestureRecognizer, stream, dbg, srcObject>>

SetupStep ==
    \E i \in Insts :
        \/ VisionResolve(i)
        \/ \E m \in ErrorMessages : VisionReject(i, m)
        \/ ModelResolve(i)
        \/ \E m \in ErrorMessages : ModelReject(i, m)
        \/ \E m \in ErrorMessages : CameraReject(i, m)
        \/ \E w \in VideoWidths, r \in Results : CameraResolve(i, w, r)
        \/ \E w \in VideoWidths, m \in ErrorMessages : CameraResolveThrow(i, w, m)

PredictStep ==
    \E i \in Insts, w \in VideoWidths :
        \/ \E r \in Results : PredictFrame(i, w, r)
        \/ PredictFrameThrow(i, w)

\* ------------------------------------------------------------------------
\* Numbers: three.js Vector3.lerp and MathUtils.damp in fixed point
\* ------------------------------------------------------------------------
E4 == 10 ^ 4

\* frame time is counted in ticks of 1/1200 s (20 ticks = 1/60 s)
TicksPerSecond == 12 * 100

\* n / d rounded to the nearest integer (d > 0), as a float product rounds
Round(n, d) == IF n >= 0 THEN (2 * n + d) \div (2 * d) ELSE -((2 * (-n) + d) \div (2 * d))

\* delta * rate as a lerp factor in 1/10000; rate10 = 10 * rate
Alpha(delta, rate10) == (delta * rate10 * E4) \div (10 * TicksPerSecond)

\* Vector3.lerp(v, alpha): this.x += (v.x - this.x) * alpha, per component
lerp(cur, target, alpha) ==
    [k \in 1..3 |-> cur[k] + Round((target[k] - cur[k]) * alpha, E4)]

\* exp(-x) for x >= 0 in 1/10000: exp(-x) = (1 / exp(x/4))^4, exp(x/4) by
\* its Taylor series in Horner form
RoundNat(n, d) == (2 * n + d) \div (2 * d)

RECURSIVE ExpHorner(_, _, _)
ExpHorner(y, n, acc) ==
    IF n = 0 THEN acc ELSE ExpHorner(y, n - 1, E4 + RoundNat(RoundNat(y * acc, E4), n))

ExpNeg(x) ==
    LET y  == RoundNat(x, 4)
        ey == ExpHorner(y, 12, E4)
        q  == RoundNat(E4 * E4, ey)
        q2 == RoundNat(q * q, E4)
    IN  RoundNat(q2 * q2, E4)

\* MathUtils.damp(x, y, lambda, dt) = lerp(x, y, 1 - Math.exp(-lambda * dt))
damp(x, y, lambda10, delta) ==
    LET factor == E4 - ExpNeg(Alpha(delta, lambda10))
    IN  x + Round((y - x) * factor, E4)

\* ------------------------------------------------------------------------
\* Layout: the useMemo data of PhotoOrnaments, ChristmasElements, FairyLights
\* ------------------------------------------------------------------------
\* Math.random(): draw k of the stream `seed`, in quarters (0, 1/4, 1/2, 3/4)
Seeds == {0, 1}

Random(seed, k) == (seed * (k + 1) + (k * (k + 1)) \div 2) % 4

\* (Math.random() - 0.5) * spread, in 1/100
Scatter(q, spread) == ((q - 2) * spread * 100) \div 4

\* y = Math.random() * h - h / 2, in 1/100
TreeY(q) == (q * TreeHeight * 100) \div 4 - (TreeHeight * 100) \div 2

\* rBase * (1 - (y + h/2) / h), in 1/100
ConeRadius(y) ==
    Round(TreeRadius * 100 * (TreeHeight * 100 - (y + (TreeHeight * 100) \div 2)),
          TreeHeight * 100)

\* cos and sin of theta = Math.random() * 2 * PI at the quarters
CosQ(q) == CASE q = 0 -> 1 [] q = 1 -> 0 [] q = 2 -> -1 [] OTHER -> 0

SinQ(q) == CASE q = 0 -> 0 [] q = 1 -> 1 [] q = 2 -> 0 [] OTHER -> -1

ChaosPos(seed, base, spread) ==
    <<Scatter(Random(seed, base + 1), spread), Scatter(Random(seed, base + 2), spread),
      Scatter(Random(seed, base + 3), spread)>>

\* lines 92-98: y, theta and r are drawn in this order; r = Math.random() * currentRadius
getTreePosition(seed, base) ==
    LET y             == TreeY(Random(seed, base + 1))
        currentRadius == ConeRadius(y)
        th            == Random(seed, base + 2)
        r             == (Random(seed, base + 3) * currentRadius) \div 4
    IN  <<r * CosQ(th), y, r * SinQ(th)>>

\* lines 106-110: targetPositions of the foliage point i
FoliageTarget(seed, i) == getTreePosition(seed, 16 * i + 13)

\* lines 142-149
OrnamentData(seed, i) ==
    LET base  == 16 * i
        chaos == ChaosPos(seed, base, OrnamentSpread)
        y     == TreeY(Random(seed, base + 4))
        r     == ConeRadius(y) + 50
        th    == Random(seed, base + 5)
    IN  [chaosPos |-> chaos, targetPos |-> <<r * CosQ(th), y, r * SinQ(th)>>,
         currentPos |-> chaos]

\* lines 194-198
ElementData(seed, i) ==
    LET base  == 16 * i + 5
        chaos == ChaosPos(seed, base, ElementSpread)
        y     == TreeY(Random(seed, base + 4))
        r     == Round(ConeRadius(y) * 95, 100)
        th    == Random(seed, base + 5)
    IN  [chaosPos |-> chaos, targetPos |-> <<r * CosQ(th), y, r * SinQ(th)>>,
         currentPos |-> chaos]

\* line 220: targetPos (0,0,0), currentPos new THREE.Vector3()
LightData(seed, i) ==
    [chaosPos |-> ChaosPos(seed, 16 * i + 10, LightSpread), targetPos |-> <<0, 0, 0>>,
     currentPos |-> <<0, 0, 0>>]

Entities == 1..EntityCount

\* ------------------------------------------------------------------------
\* Morph: the useFrame callbacks
\* ------------------------------------------------------------------------
\* the frame times the render loop supplies, in ticks: 1/60 s, 5/6 s, 2.5 s
Deltas == {20, 1000, 3000}

\* lines 117-118
FoliageStep(p, mode, delta) ==
    damp(p, IF mode = "FORMED" THEN E4 ELSE 0, FoliageLambda, delta)

ActiveTarget(o, mode) == IF mode = "FORMED" THEN o.targetPos ELSE o.chaosPos

\* a step on data whose currentPos is chaosPos itself and not a clone of it
OrnamentStepAliased(o, mode, delta) ==
    LET moved == lerp(o.currentPos, ActiveTarget(o, mode),
                      Alpha(delta, IF mode = "FORMED" THEN OrnamentRateFormed
                                                      ELSE OrnamentRateChaos))
    IN  [o EXCEPT !.currentPos = moved, !.chaosPos = moved]

\* lines 158-159
OrnamentStep(o, mode, delta) ==
    [o EXCEPT !.currentPos =
        lerp(o.currentPos, ActiveTarget(o, mode),
             Alpha(delta, IF mode = "FORMED" THEN OrnamentRateFormed ELSE OrnamentRateChaos))]

\* line 205
ElementStep(o, mode, delta) ==
    [o EXCEPT !.currentPos = lerp(o.currentPos, ActiveTarget(o, mode), Alpha(delta, ElementRate))]

\* line 225
LightStep(o, mode, delta) ==
    [o EXCEPT !.currentPos = lerp(o.currentPos, ActiveTarget(o, mode), Alpha(delta, LightRate))]

\* line 238: scale.lerp(new Vector3(targetScale, targetScale, targetScale), delta * 3)
StarTarget(mode) == IF mode = "FORMED" THEN <<1000, 1000, 1000>> ELSE <<0, 0, 0>>

StarStep(s, mode, delta) == lerp(s, StarTarget(mode), Alpha(delta, StarRate))

\* the scene as one value
Scene == [sceneState |-> sceneState, rotationSpeed |-> rotationSpeed, aiStatus |-> aiStatus,
          uProgress |-> uProgress, ornaments |-> ornaments, elements |-> elements,
          lights |-> lights, starScale |-> starScale]

\* one rendered frame: every useFrame callback runs with the same delta
FrameStep(sc, delta) ==
    [sc EXCEPT
        !.uProgress = FoliageStep(sc.uProgress, sc.sceneState, delta),
        !.ornaments = [i \in Entities |-> OrnamentStep(sc.ornaments[i], sc.sceneState, delta)],
        !.elements  = [i \in Entities |-> ElementStep(sc.elements[i], sc.sceneState, delta)],
        !.lights    = [i \in Entities |-> LightStep(sc.lights[i], sc.sceneState, delta)],
        !.starScale = StarStep(sc.starScale, sc.sceneState, delta)]

InBox(v) == \A k \in 1..3 : Abs(v[k]) <= MaxCoord

SceneInBox(sc) ==
    /\ InBox(sc.starScale)
    /\ \A i \in Entities : /\ InBox(sc.ornaments[i].currentPos)
                           /\ InBox(sc.elements[i].currentPos)
                           /\ InBox(sc.lights[i].currentPos)

SetScene(sc) ==
    /\ uProgress' = sc.uProgress
    /\ ornaments' = sc.ornaments
    /\ elements' = sc.elements
    /\ lights' = sc.lights
    /\ starScale' = sc.starScale
    /\ UNCHANGED runtime

FrameCore(delta) ==
    /\ mounted
    /\ SceneInBox(FrameStep(Scene, delta))
    /\ SetScene(FrameStep(Scene, delta))
    /\ UNCHANGED pipeVars

Frame(delta) == FrameCore(delta) /\ UNCHANGED twin

\* a frame of a bounded run
FrameTick ==
    /\ frameCount < MaxFrames
    /\ frameCount' = frameCount + 1
    /\ \E delta \in Deltas : Frame(delta)

\* a frame of an unbounded run of a slow render loop
SlowDeltas == {1000, 3000}

FrameSlow ==
    /\ frameCount' = IF frameCount < MaxFrames THEN frameCount + 1 ELSE frameCount
    /\ \E delta \in SlowDeltas : Frame(delta)

\* the mode button pressed before the first frame is rendered
ToggleEarly == frameCount = 0 /\ ToggleScene

\* frames whose top gesture passes the gate and names a mode
ModeFrames ==
    {r \in Results : /\ Len(r.gestures) > 0
                     /\ ScorePasses(r.gestures[1].score)
                     /\ r.gestures[1].categoryName \in {"Open_Palm", "Closed_Fist"}}

\* the promises of setup() resolve; the first predictWebcam() recognises a
\* frame that passes the score gate with a mode gesture
ModeSetup ==
    \E i \in Insts :
        \/ VisionResolve(i)
        \/ ModelResolve(i)
        \/ \E w \in VideoWidths, r \in ModeFrames : CameraResolve(i, w, r)

\* an animation-frame callback recognises such a frame
GestureFrames ==
    \E i \in Insts, w \in VideoWidths, r \in ModeFrames : PredictFrame(i, w, r)

\* a frame of a run bounded by MaxLayoutFrames
FrameFew ==
    /\ frameCount < MaxLayoutFrames
    /\ frameCount' = frameCount + 1
    /\ \E delta \in Deltas : Frame(delta)

\* line 254: autoRotate={rotationSpeed === 0 && sceneState === 'FORMED'}
autoRotate == rotationSpeed = 0 /\ sceneState = "FORMED"

\* ------------------------------------------------------------------------
\* Two scenes side by side: the scene receives every call of the pipeline;
\* the twin receives the same calls, except an onGesture call that repeats
\* the mode switch of the previous recognised frame; both render the same frames
\* ------------------------------------------------------------------------
\* the mode a recognised frame switches to ("" if it calls no onGesture)
ModeEvent(results) ==
    IF results \in ModeFrames
    THEN (IF results.gestures[1].categoryName = "Open_Palm" THEN "CHAOS" ELSE "FORMED")
    ELSE ""

\* the step recognised a frame that dispatches the mode switch the previous
\* recognised frame dispatched, with no other pipeline step or button between
RepeatedSwitch ==
    /\ Len(lastFrame) > 0 /\ Len(lastFrame') > 0
    /\ ModeEvent(lastFrame'[1]) # ""
    /\ ModeEvent(lastFrame'[1]) = ModeEvent(lastFrame[1])

NotGesture(c) == c.fn # "onGesture"

\* the twin after the calls of the step
TwinFollows ==
    twin' = LET calls == IF RepeatedSwitch THEN SelectSeq(emitted', NotGesture) ELSE emitted'
                t     == ApplyCalls([sceneState |-> twin.sceneState,
                                     rotationSpeed |-> twin.rotationSpeed,
                                     aiStatus |-> twin.aiStatus], calls)
            IN  [twin EXCEPT !.sceneState = t.sceneState,
                             !.rotationSpeed = t.rotationSpeed,
                             !.aiStatus = t.aiStatus,
                             !.skipped = @ \/ RepeatedSwitch]

TwinMount == MountCore /\ TwinFollows

\* the mode button, pressed for both scenes
TwinToggle ==
    /\ ToggleSceneCore
    /\ twin' = [twin EXCEPT !.sceneState = toggleSceneState(@)]

TwinVisionResolve(i) == VisionResolveCore(i) /\ TwinFollows

TwinModelResolve(i) == ModelResolveCore(i) /\ TwinFollows

TwinCameraResolve(i, videoWidth, results) ==
    CameraResolveCore(i, videoWidth, results) /\ TwinFollows

TwinPredictFrame(i, videoWidth, results) ==
    PredictFrameCore(i, videoWidth, results) /\ TwinFollows

TwinSetup ==
    \E i \in Insts :
        \/ TwinVisionResolve(i)
        \/ TwinModelResolve(i)
        \/ \E w \in VideoWidths, r \in ModeFrames : TwinCameraResolve(i, w, r)

TwinPredict ==
    \E i \in Insts, w \in VideoWidths, r \in ModeFrames : TwinPredictFrame(i, w, r)

TwinFrame ==
    /\ frameCount < MaxTwinFrames
    /\ frameCount' = frameCount + 1
    /\ \E delta \in Deltas :
          /\ FrameCore(delta)
          /\ SceneInBox(FrameStep(twin, delta))
          /\ twin' = FrameStep(twin, delta)

\* ------------------------------------------------------------------------
\* Specifications
\* ------------------------------------------------------------------------
InitApp ==
    /\ isMobile \in BOOLEAN
    /\ mediaDevices \in BOOLEAN
    /\ mounted = FALSE
    /\ sceneState = "CHAOS"
    /\ rotationSpeed = 0
    /\ aiStatus = "INITIALIZING..."
    /\ debugMode = FALSE
    /\ nInst = 0
    /\ pc = [i \in Insts |-> "none"]
    /\ cancelled = [i \in Insts |-> FALSE]
    /\ gestureRecognizer = [i \in Insts |-> FALSE]
    /\ requestRef = [i \in Insts |-> FALSE]
    /\ stream = [i \in Insts |-> "none"]
    /\ dbg = [i \in Insts |-> FALSE]
    /\ srcObject = 0
    /\ failure = [i \in Insts |-> "none"]
    /\ emitted = << >>
    /\ lastFrame = NoFrame
    /\ uProgress = 0
    /\ \E seed \in Seeds :
          /\ ornaments = [i \in Entities |-> OrnamentData(seed, i)]
          /\ elements = [i \in Entities |-> ElementData(seed, i)]
          /\ lights = [i \in Entities |-> LightData(seed, i)]
    /\ starScale = <<1000, 1000, 1000>>
    /\ runtime = useRuntimeConfig(isMobile)
    /\ frameCount = 0

\* no second scene
Init == InitApp /\ twin = << >>

\* the second scene starts as a copy of the scene; skipped records that it
\* was spared a repeated mode switch
InitTwin ==
    /\ InitApp
    /\ twin = [sceneState |-> sceneState, rotationSpeed |-> rotationSpeed,
               aiStatus |-> aiStatus, uProgress |-> uProgress, ornaments |-> ornaments,
               elements |-> elements, lights |-> lights, starScale |-> starScale,
               skipped |-> FALSE]

\* the gesture pipeline and the scene state it drives
Next ==
    \/ Mount
    \/ ToggleDebug
    \/ ToggleScene
    \/ Unmount
    \/ SetupStep
    \/ PredictStep

Spec == Init /\ [][Next]_vars

\* every pending promise of setup() settles and the browser runs every
\* animation-frame callback that was requested
SpecLoop == Init /\ [][Next]_vars /\ WF_vars(SetupStep) /\ WF_vars(PredictStep)

\* the render loop under the mode button
MorphNext ==
    \/ Mount
    \/ ToggleScene
    \/ FrameTick

SpecMorph == Init /\ [][MorphNext]_vars

\* the render loop keeps rendering: r3f requests a frame after every frame
ConvergeNext ==
    \/ Mount
    \/ ToggleEarly
    \/ FrameSlow

SpecConverge == Init /\ [][ConvergeNext]_vars /\ WF_vars(FrameSlow)

\* the render loop under the mode button and mode gestures
LayoutNext ==
    \/ Mount
    \/ ToggleScene
    \/ ModeSetup
    \/ GestureFrames
    \/ FrameFew

SpecLayout == Init /\ [][LayoutNext]_vars

\* repeated mode switches against single ones
TwinNext ==
    \/ TwinMount
    \/ TwinToggle
    \/ TwinSetup
    \/ TwinPredict
    \/ TwinFrame

SpecIdem == InitTwin /\ [][TwinNext]_vars

\* ------------------------------------------------------------------------
\* Properties
\* ------------------------------------------------------------------------
Calls == DOMAIN emitted

GestureEvent(k) == emitted[k].fn \in {"onGesture", "onMove"}

\* C1: an instance whose effect cleanup has run never calls onGesture or
\* onMove again, whatever await of setup() or animation frame comes after it.
C1_NoGestureEventAfterCancel ==
    \A k \in Calls : GestureEvent(k) => ~emitted[k].late

\* C1 witness: the camera promise of a cancelled instance resolved while the
\* video element was still mounted, so setup() called predictWebcam() after
\* the cleanup (the status call just before it shows it) and no gesture event
\* came out.
C1_Witness ==
    \E k \in Calls : /\ emitted[k].fn = "onStatus"
                     /\ emitted[k].arg = "AI READY: SHOW HAND"
                     /\ emitted[k].late
                     /\ cancelled[emitted[k].inst]
                     /\ stream[emitted[k].inst] = "live"

\* C2: an instance whose effect cleanup has run makes no further call of any
\* kind, status strings included.
C2_NoCallAfterCancel ==
    \A k \in Calls : emitted[k].late = FALSE

\* C3: after the effect cleanup of an instance, no camera stream it obtained
\* is still live.
C3_CancelledStreamReleased ==
    \A i \in Insts : cancelled[i] => stream[i] # "live"

SessionAlive(i) == stream[i] = "live" /\ gestureRecognizer[i]

\* C4: at most one recognition session (live camera stream plus loaded
\* recognizer) exists at any time.
C4_AtMostOneSession ==
    Cardinality({i \in Insts : SessionAlive(i)}) <= 1

\* C5: a recognised frame whose top score is at or below the threshold
\* dispatches neither onGesture nor onMove; a frame whose top score is above
\* it and names a mode gesture dispatches onGesture.
C5_ConfidenceGate ==
    (Len(lastFrame) > 0 /\ Len(lastFrame[1].gestures) > 0) =>
        LET g == lastFrame[1].gestures[1]
        IN  /\ (g.score <= ScoreThreshold) => (\A k \in Calls : ~GestureEvent(k))
            /\ (g.score > ScoreThreshold /\ g.categoryName \in {"Open_Palm", "Closed_Fist"})
                   => (\E k \in Calls : emitted[k].fn = "onGesture")

\* C6: the rotation rate always lies within the range a landmark inside the
\* frame (x in [0,1]) can produce, whatever x the recognizer reports.
C6_RotationBounded ==
    Abs(rotationSpeed) <= FrameCenter * MoveGain

Between(x, a, b) == (a <= x /\ x <= b) \/ (b <= x /\ x <= a)

EntityInRange(o) == \A k \in 1..3 : Between(o.currentPos[k], o.chaosPos[k], o.targetPos[k])

\* every group is between its chaos and its formed configuration
ProgressInRange ==
    /\ Between(uProgress, 0, E4)
    /\ \A k \in 1..3 : Between(starScale[k], 0, 1000)
    /\ \A i \in Entities : /\ EntityInRange(ornaments[i])
                           /\ EntityInRange(elements[i])
                           /\ EntityInRange(lights[i])

Toward(cur, new, goal) == (goal - cur) * (new - cur) >= 0

EntityToward(o, new) ==
    \A k \in 1..3 : Toward(o.currentPos[k], new.currentPos[k], ActiveTarget(o, sceneState)[k])

MovesTowardMode ==
    /\ Toward(uProgress, uProgress', IF sceneState = "FORMED" THEN E4 ELSE 0)
    /\ \A k \in 1..3 : Toward(starScale[k], starScale'[k], StarTarget(sceneState)[k])
    /\ \A i \in Entities : /\ EntityToward(ornaments[i], ornaments'[i])
                           /\ EntityToward(elements[i], elements'[i])
                           /\ EntityToward(lights[i], lights'[i])

FrameRendered == frameCount' = frameCount + 1

\* C7: on every frame, whatever its positive frame time, every group's morph
\* progress moves toward the end the mode names and stays within [0,1].
C7_ProgressWithinUnitInterval ==
    [][FrameRendered => (MovesTowardMode /\ ProgressInRange')]_vars

Dist2(a, b) ==
    (a[1] - b[1]) * (a[1] - b[1]) + (a[2] - b[2]) * (a[2] - b[2])
        + (a[3] - b[3]) * (a[3] - b[3])

Approaches(o, new) ==
    Dist2(new.currentPos, ActiveTarget(o, sceneState))
        <= Dist2(o.currentPos, ActiveTarget(o, sceneState))

\* C8: while the mode is constant, a frame never increases the distance of
\* an ornament, element or light to its active target, whatever the frame time.
C8_MonotonicApproach ==
    [][(FrameRendered /\ sceneState' = sceneState) =>
          \A i \in Entities : /\ Approaches(ornaments[i], ornaments'[i])
                              /\ Approaches(elements[i], elements'[i])
                              /\ Approaches(lights[i], lights'[i])]_vars

Near(o) == Dist2(o.currentPos, o.targetPos) < Epsilon * Epsilon

AllNear ==
    /\ E4 - uProgress < Epsilon * 10 /\ uProgress - E4 < Epsilon * 10
    /\ \A i \in Entities : Near(ornaments[i]) /\ Near(elements[i]) /\ Near(lights[i])

\* C9: if frames keep being rendered and the mode stays FORMED from some
\* frame on, then from some frame on every entity stays within the tolerance
\* of its target position and the foliage progress within it of 1.
C9_Convergence ==
    ([]<><<FrameSlow>>_vars /\ <>[](sceneState = "FORMED")) => <>[]AllNear

\* C10: a scene that received the same mode switch from two or more
\* recognised frames in a row has the same mode, and the same positions and
\* progress over the frames rendered since, as the twin that received it once.
C10_RepeatedSwitchIsOneSwitch ==
    /\ sceneState = twin.sceneState
    /\ uProgress = twin.uProgress
    /\ ornaments = twin.ornaments
    /\ elements = twin.elements
    /\ lights = twin.lights
    /\ starScale = twin.starScale

\* C10 witness: the loop dispatched Closed_Fist again right after a frame that
\* had dispatched it, the twin was spared the repeat, the mode is FORMED and
\* a rendered frame has moved the ornaments off their chaos positions.
C10_Witness ==
    /\ twin.skipped
    /\ Len(lastFrame) > 0 /\ ModeEvent(lastFrame[1]) = "FORMED"
    /\ sceneState = "FORMED"
    /\ frameCount >= 1
    /\ \A i \in Entities : ornaments[i].currentPos # ornaments[i].chaosPos

\* C11: no exception of the gesture pipeline escapes it: whatever
\* recognizeForVideo throws, in the first or a later iteration of the loop, is
\* caught inside the pipeline.
C11_NoFailureEscapes ==
    \A i \in Insts : failure[i] # "uncaught"

\* C12: after recognizeForVideo threw in an iteration of a pipeline that is
\* not cancelled, the next animation frame is scheduled.
C12_LoopRetriesAfterError ==
    \A i \in Insts : (failure[i] # "none" /\ ~cancelled[i] /\ mounted) => requestRef[i]

\* C13: on a mobile device no instance ever loads the model, requests the
\* camera or calls the recognizer; once the effect has run the status is the
\* fixed disabled string for good; and the mode changes only by the mode button.
C13_MobilePipelineOff ==
    /\ [](isMobile =>
            /\ \A i \in Insts : /\ pc[i] \in {"none", "disabled"}
                                 /\ ~gestureRecognizer[i]
                                 /\ stream[i] = "none"
                                 /\ ~requestRef[i]
            /\ lastFrame = NoFrame
            /\ (nInst > 0 => aiStatus = "AI DISABLED ON MOBILE"))
    /\ [][(isMobile /\ sceneState' # sceneState) =>
              (emitted' = << >> /\ sceneState' = toggleSceneState(sceneState))]_vars

\* C13 witness: on a mobile device the effect has run twice (mount and a debug
\* toggle) and the mode button has switched the mode to FORMED.
C13_Witness ==
    /\ isMobile
    /\ nInst >= 2
    /\ sceneState = "FORMED"
    /\ aiStatus = "AI DISABLED ON MOBILE"

\* p lies in the cone of the tree: |y| <= h/2 and x^2 + z^2 <= (rBase * (1 - (y + h/2) / h))^2
InCone(p) ==
    /\ Abs(p[2]) <= (TreeHeight * 100) \div 2
    /\ p[1] * p[1] + p[3] * p[3] <= ConeRadius(p[2]) * ConeRadius(p[2])

\* C14: every target position of the foliage, the ornaments and the elements
\* lies in the cone of height 22 and base radius 9.
C14_TargetsInCone ==
    /\ \A seed \in Seeds, i \in Entities : InCone(FoliageTarget(seed, i))
    /\ \A i \in Entities : InCone(ornaments[i].targetPos) /\ InCone(elements[i].targetPos)

SameLayout(o, new) == new.chaosPos = o.chaosPos /\ new.targetPos = o.targetPos

\* C15: no step (mode button, mode gesture, rendered frame) changes the
\* chaos position or the target position of an entity or the number of
\* entities of a group.
C15_LayoutFixed ==
    [][/\ DOMAIN ornaments' = DOMAIN ornaments
       /\ DOMAIN elements' = DOMAIN elements
       /\ DOMAIN lights' = DOMAIN lights
       /\ \A i \in Entities : /\ SameLayout(ornaments[i], ornaments'[i])
                               /\ SameLayout(elements[i], elements'[i])
                               /\ SameLayout(lights[i], lights'[i])]_vars

\* C15 witness: the mode was switched by a Closed_Fist gesture and frames
\* rendered since have moved an ornament off its chaos position.
C15_Witness ==
    /\ Len(emitted) > 0
    /\ emitted[1].fn = "onGesture" /\ emitted[1].arg = "FORMED"
    /\ sceneState = "FORMED"
    /\ frameCount >= 2
    /\ \E i \in Entities : ornaments[i].currentPos # ornaments[i].chaosPos

\* a recognised frame without a hand: no gesture or no landmarks
NoHand(results) == Len(results.gestures) = 0 \/ Len(results.landmarks) = 0

IdleStatuses == {"AI READY: NO HAND", "AI READY: SHOW HAND"}

\* C16: after every recognised frame without a hand the rotation rate is 0
\* and the status is an idle one, with the debug overlay on or off and
\* whichever of the two lists is empty.
C16_NoHandResetsRotation ==
    (Len(lastFrame) > 0 /\ NoHand(lastFrame[1])) =>
        (rotationSpeed = 0 /\ aiStatus \in IdleStatuses)

\* C17: the configuration resolved on a mobile device has, for every group,
\* a count strictly below the desktop count; the desktop configuration is
\* BASE_CONFIG itself.
C17_MobileCountsSmaller ==
    /\ runtime = useRuntimeConfig(isMobile)
    /\ isMobile => \A g \in Groups : runtime.cfg.counts[g] < useRuntimeConfig(FALSE).cfg.counts[g]
    /\ ~isMobile => runtime.cfg.counts = BASE_CONFIG.counts

\* C17 witness: the app is mounted on a mobile device and runs with the
\* resolved configuration, whose foliage count differs from the desktop one.
C17_Witness ==
    /\ isMobile /\ runtime.isMobile
    /\ mounted
    /\ runtime.cfg.counts.foliage # BASE_CONFIG.counts.foliage

\* the frame times a frame is split into, in ticks: 1/60 s and 5/6 s
SplitDeltas == {20, 1000}

Close(a, b) == \A k \in 1..3 : Abs(a[k] - b[k]) <= Epsilon

\* the foliage progress after frames of d1 and d2 and after one frame of d1 + d2
FoliageSplitAgrees(d1, d2) ==
    Abs(FoliageStep(FoliageStep(uProgress, sceneState, d1), sceneState, d2)
          - FoliageStep(uProgress, sceneState, d1 + d2)) <= Epsilon * 10

\* C18: from every state of the scene, two frames of d1 and d2 leave the
\* foliage progress and every ornament, element and light where one frame of
\* d1 + d2 leaves them, up to the tolerance.
C18_FrameRateIndependent ==
    \A d1 \in SplitDeltas, d2 \in SplitDeltas :
        /\ FoliageSplitAgrees(d1, d2)
        /\ \A i \in Entities :
              /\ Close(OrnamentStep(OrnamentStep(ornaments[i], sceneState, d1),
                                    sceneState, d2).currentPos,
                       OrnamentStep(ornaments[i], sceneState, d1 + d2).currentPos)
              /\ Close(ElementStep(ElementStep(elements[i], sceneState, d1),
                                   sceneState, d2).currentPos,
                       ElementStep(elements[i], sceneState, d1 + d2).currentPos)
              /\ Close(LightStep(LightStep(lights[i], sceneState, d1),
                                 sceneState, d2).currentPos,
                       LightStep(lights[i], sceneState, d1 + d2).currentPos)

\* C19: while the scene is mounted, auto-rotation is on exactly when the
\* rotation rate is 0, in mode CHAOS as in mode FORMED.
C19_AutoRotateWhenIdle ==
    mounted => (autoRotate <=> rotationSpeed = 0)

\* C20: a step that toggles the debug overlay changes neither the mode, the
\* rotation rate nor the status, cancels no pipeline instance and starts none.
C20_DebugToggleInert ==
    [][debugMode' # debugMode =>
          /\ sceneState' = sceneState
          /\ rotationSpeed' = rotationSpeed
          /\ aiStatus' = aiStatus
          /\ cancelled' = cancelled
          /\ requestRef' = requestRef
          /\ \A i \in Insts : pc'[i] = "awaitVision" => pc[i] = "awaitVision"]_vars

\* a polling loop that can dispatch: an instance that is not cancelled and has
\* an animation-frame callback pending
LoopRunning == mounted /\ \E i \in Insts : requestRef[i] /\ ~cancelled[i]

\* C21: whenever the app is mounted with no polling loop running and a
\* non-zero rotation rate, the rotation rate becomes 0.
C21_RotationStopsWithLoop ==
    (mounted /\ ~LoopRunning /\ rotationSpeed # 0) ~> (rotationSpeed = 0)

\* instances that can dispatch: not cancelled, with a callback pending
DispatchingLoops == {i \in Insts : ~cancelled[i] /\ requestRef[i]}

\* C22: at most one instance is not cancelled with a predictWebcam callback
\* pending; an instance gets its first pending callback only in the step in
\* which its setup() finishes, and a finished setup() never runs again.
C22_SingleLoop ==
    /\ [](Cardinality(DispatchingLoops) <= 1)
    /\ [][\A i \in Insts :
             /\ (~requestRef[i] /\ requestRef'[i]) => (pc[i] = "awaitCamera" /\ pc'[i] = "done")
             /\ (pc[i] = "done") => (pc'[i] = "done")]_vars

\* C22 witness: the first instance was cancelled by a debug toggle, its camera
\* promise resolved all the same, and the second instance runs its loop.
C22_Witness ==
    /\ nInst = 2
    /\ cancelled[1] /\ stream[1] = "live" /\ gestureRecognizer[1]
    /\ ~cancelled[2] /\ requestRef[2]

AtChaos(o) == o.currentPos = o.chaosPos

\* C23: before the first frame is rendered every ornament, element and light
\* is at its chaos position.
C23_InitialPositionsAtChaos ==
    (frameCount = 0) =>
        \A i \in Entities : AtChaos(ornaments[i]) /\ AtChaos(elements[i]) /\ AtChaos(lights[i])

====
